---- MODULE Spec2Model ----
(***************************************************************************)
(* A model of package closer (src/closer.go): the process-wide closer gC,  *)
(* its stack of deferred functions, the lazily started signal goroutine,   *)
(* and the calls Defer, the trigger returned by Defer, SetSignals and Exit *)
(* made by concurrently running goroutines.                                *)
(***************************************************************************)
EXTENDS Integers, Sequences, FiniteSets, TLC

\* ---------------------------------------------------------------- bounds
NumThreads  == 2   \* goroutines of caller code
MaxCalls    == 3   \* calls of Defer, a trigger, SetSignals and Exit in one run
MaxBatchLen == 2   \* functions passed to one Defer call
MaxSignals  == 1   \* signals the operating system sends in one run

\* ------------------------------------------------------ program constants
SIGHUP  == 1
SIGINT  == 2
SIGTERM == 15
DefaultSignals == {SIGINT, SIGHUP, SIGTERM}
PanicStatus == 2       \* the status of a process ended by a panic nobody recovers
InitExitCodeOk  == 0
InitExitCodeErr == 1
Unspecified == -1      \* the code argument of Exit that selects by outcome
TestExitCodeErr == 55  \* the value the test's deferred function stores
SigChCap == 1          \* make(chan os.Signal, 1)

Threads  == 1..NumThreads
Listener == 0          \* the goroutine running waitForSignal
Procs    == Threads \cup {Listener}

\* What a deferred function does when it is called; the functions are the
\* caller's code, so each call may end in any of these ways:
\*   "ok"     it returns nil (or is a func() that returns)
\*   "err"    it returns a non-nil error
\*   "panic"  it panics
\*   "seterr" it is the test's func() { closer.ExitCodeErr = 55 }
\*   "reenter" it calls Defer, a trigger or Exit itself
Outcomes == {"ok", "err", "panic", "seterr", "reenter"}

\* How many functions a Defer call is given.
FnCounts == 1..MaxBatchLen
\* The signals the operating system may send, and the sets SetSignals is given.
OsSignals == {SIGTERM}
SignalArgs == {{}, {SIGINT}}
\* The code arguments of Exit.
ExitArgs == {Unspecified, 42}

VARIABLES
  closers,            \* gC.closers: the stack, entries [b, k, fn]
  cfs,                \* cfs[b]: the slice the b-th trigger closes over (fn # nil?)
  trig,               \* the batches whose Defer call has returned its trigger
  mutex,              \* gC.Mutex is locked
  once,               \* gC.Once: "new", "running", "done"
  sigChMade,          \* gC.sigCh # nil
  sigCh,              \* the signals buffered in gC.sigCh
  watched,            \* the signals signal.Notify relays to gC.sigCh
  listeners,          \* how many times go c.waitForSignal() ran
  th,                 \* each goroutine's position and locals
  ExitWithSignalCode,
  ExitCodeOk,
  ExitCodeErr,
  OnErrorSet,         \* OnError # nil
  execs,              \* execs[b][k]: how many times that function was called
  calls,              \* calls[b]: how many times the b-th trigger was called
  terminated,         \* the process has ended
  exitCode,           \* with this status
  exitBy,             \* "Exit", "waitForSignal", "panic", or "os": killed by an
                      \* unwatched signal
  exitProc,           \* the goroutine whose os.Exit ended it
  nCalls,             \* calls made so far
  nSignals            \* signals sent so far

vars == <<closers, cfs, trig, mutex, once, sigChMade, sigCh, watched,
          listeners, th, ExitWithSignalCode, ExitCodeOk, ExitCodeErr, OnErrorSet,
          execs, calls, terminated, exitCode, exitBy, exitProc, nCalls, nSignals>>

\* A goroutine's locals: where it is, the call it is in, and for a cleanup pass
\* the batch (0: the stack), the number n of entries, the index i and cleanup's
\* errored; for reinit the signals asked for, and after signal.Stop the ones
\* relayed until then.  Of a pass these are kept besides: todo, the entries whose fn was
\* non-nil when the pass began; ran, the functions the pass has called so far,
\* in order, each with its entry j, how the call ended and whether its error
\* was given to OnError; sets, whether one of them assigned ExitCodeErr.
Idle == [pc |-> "idle", op |-> "none", b |-> 0, n |-> 0, i |-> 0, erred |-> FALSE,
         todo |-> {}, ran |-> <<>>, sets |-> FALSE,
         code |-> 0, force |-> FALSE, sigs |-> {}, old |-> {}, sig |-> 0]

Init ==
  /\ closers = <<>>
  /\ cfs = <<>>
  /\ trig = {}
  /\ mutex = FALSE
  /\ once = "new"
  /\ sigChMade = FALSE
  /\ sigCh = <<>>
  /\ watched = {}
  /\ listeners = 0
  /\ th = [p \in Procs |-> IF p = Listener THEN [Idle EXCEPT !.pc = "unborn"] ELSE Idle]
  /\ ExitWithSignalCode \in BOOLEAN
  /\ ExitCodeOk = InitExitCodeOk
  /\ ExitCodeErr = InitExitCodeErr
  /\ OnErrorSet \in BOOLEAN
  /\ execs = <<>>
  /\ calls = <<>>
  /\ terminated = FALSE
  /\ exitCode = 0
  /\ exitBy = "none"
  /\ exitProc = 0
  /\ nCalls = 0
  /\ nSignals = 0

\* ------------------------------------------------------------ closerFunc
\* What exec does with one entry: whether fn was called, how the call ended
\* ("nil", "error" or "panic"; "reentered" when the call went back into the
\* closer; "none" when fn was not called), whether the err that exec returns is
\* non-nil, and whether cf.fn is non-nil afterwards.
Skipped == [ran |-> FALSE, res |-> "none", err |-> FALSE, fn |-> FALSE]
Called(res, err, fn) == [ran |-> TRUE, res |-> res, err |-> err, fn |-> fn]
Ending(out) == CASE out \in {"ok", "seterr"} -> "nil"
                 [] out = "err"              -> "error"
                 [] out = "panic"            -> "panic"
                 [] out = "reenter"          -> "reentered"

\* The mutant of exec whose recover drops the panic: err stays nil.
execDropsPanic(out, fn) ==
  IF ~fn THEN Skipped ELSE Called(Ending(out), out = "err", out = "panic")

\* (cf *closerFunc) exec(), for a function that ends as out says.  The
\* assignment err, cf.fn = cf.fn(), nil happens only when cf.fn() returns: a
\* panic leaves cf.fn as it was, and the deferred recover sets err; so does a
\* call that goes back into the closer, as long as it has not returned.
exec(out, fn) ==
  IF ~fn THEN Skipped
  ELSE CASE out = "ok"     -> Called("nil", FALSE, FALSE)
         [] out = "seterr" -> Called("nil", FALSE, FALSE)
         [] out = "err"    -> Called("error", TRUE, FALSE)
         [] out = "panic"  -> Called("panic", TRUE, TRUE)
         [] out = "reenter" -> Called("reentered", FALSE, TRUE)

\* ------------------------------------------------------------ exit codes
\* The type assertion sig.(syscall.Signal): what signal.Notify relays always
\* is a syscall.Signal.
IsSyscallSignal(sig) == sig \in Int

\* The mutant of Exit's choice that ignores an explicit code.
ExitStatusByOutcome(code, erred, okCode, errCode) ==
  IF erred THEN errCode ELSE okCode

\* The mutant of Exit's choice with the two outcomes swapped.
ExitStatusSwapped(code, erred, okCode, errCode) ==
  IF code # Unspecified THEN code
  ELSE IF erred THEN okCode ELSE errCode

\* Exit, after the cleanup: the status given to os.Exit.
ExitStatus(code, erred, okCode, errCode) ==
  IF code # Unspecified THEN code
  ELSE IF erred THEN errCode ELSE okCode

\* The mutant of waitForSignal's choice that always uses the signal's number.
SignalStatusAlwaysSignal(sig, withSignalCode, errCode) == sig

\* The mutant of waitForSignal's choice that uses the ExitCodeErr the process
\* started with, not the one it has after the cleanup.
SignalStatusStaleErr(sig, withSignalCode, errCode) ==
  IF IsSyscallSignal(sig) /\ withSignalCode THEN sig ELSE InitExitCodeErr

\* waitForSignal, after the cleanup: the status given to os.Exit.
SignalStatus(sig, withSignalCode, errCode) ==
  IF IsSyscallSignal(sig) /\ withSignalCode THEN sig ELSE errCode

\* --------------------------------------------------------------- helpers
Set(t, r) == th' = [th EXCEPT ![t] = r]

Running == ~terminated

\* The goroutine t is free to make a call.  Idle goroutines do not differ, so
\* of several the first makes the call.
CanCall(t) ==
  /\ Running
  /\ th[t].pc = "idle"
  /\ \A u \in Threads : u < t => th[u].pc # "idle"
  /\ nCalls < MaxCalls

\* os.Exit(status): the process ends and no goroutine takes another step.
OsExit(t, by, status) ==
  /\ terminated' = TRUE
  /\ exitCode' = status
  /\ exitBy' = by
  /\ exitProc' = t

\* The mutant of the lock that excludes nobody.
CanLockAlways(m) == TRUE

\* c.Lock() on gC's sync.Mutex returns only when no goroutine holds it.
CanLock(m) == ~m

\* The mutant of the unlock that leaves the mutex as it is.
UnlockKeeps(m) == m

\* c.Unlock(): the mutex is free again.
Unlock(m) == FALSE

\* The mutant of the lock that the goroutine holding it may lock again.
RelocksWhenHeld(held) == held

\* c.Lock() by the goroutine that holds the mutex itself (in Defer, a trigger
\* or Exit called from a function a cleanup pass runs): sync.Mutex is not
\* reentrant, so the call does not return.
Relocks(held) == FALSE

UNCHANGED_config == UNCHANGED <<ExitWithSignalCode, ExitCodeOk, OnErrorSet>>
UNCHANGED_exit == UNCHANGED <<terminated, exitCode, exitBy, exitProc>>
UNCHANGED_signal == UNCHANGED <<sigChMade, sigCh, watched, listeners>>
UNCHANGED_stack == UNCHANGED <<closers, cfs, trig>>
UNCHANGED_count == UNCHANGED <<nCalls, nSignals>>

\* --------------------------------------------------------- get and reinit
\* Where a goroutine continues once get() has returned.
AfterGet(op) == IF op = "Defer" THEN "deferFuncs" ELSE "exit_lock"

\* get(): gC.Do(func() { gC.reinit(false) }), entered by a goroutine whose
\* locals are r.  The first caller runs reinit; later callers return at once;
\* a caller that finds reinit running waits for it to end.
Get(t, r) ==
  \/ /\ once = "new"
     /\ once' = "running"
     /\ Set(t, [r EXCEPT !.pc = "reinit", !.force = FALSE, !.sigs = DefaultSignals])
  \/ /\ once = "done"
     /\ once' = once
     /\ Set(t, [r EXCEPT !.pc = AfterGet(r.op)])

\* Where a goroutine continues once reinit has returned; reinit called by
\* gC.Do ends the Once.
ReinitReturn(t) ==
  /\ mutex' = Unlock(mutex)
  /\ IF th[t].op = "SetSignals"
       THEN /\ Set(t, Idle)
            /\ once' = once
       ELSE /\ Set(t, [th[t] EXCEPT !.pc = AfterGet(th[t].op), !.force = FALSE,
                                    !.sigs = {}, !.old = {}])
            /\ once' = "done"

\* The mutant of reinit that starts a goroutine whenever it is forced.
StartsListenerWhenForced(made, force) == ~made \/ force

\* reinit, line 116: if c.sigCh == nil, the channel is made and the goroutine
\* started, forced or not.
StartsListener(made, force) == ~made

\* reinit, lines 114-123: c.Lock(), then make the channel and start the
\* goroutine, or return when not forced, or signal.Stop, after which no signal
\* is relayed to the channel until signal.Notify; old keeps the signals that
\* were relayed before.
ReinitBody(t) ==
  /\ Running
  /\ th[t].pc = "reinit"
  /\ CanLock(mutex)
  /\ \/ /\ StartsListener(sigChMade, th[t].force)
        /\ sigChMade' = TRUE
        /\ listeners' = listeners + 1
        /\ th' = [th EXCEPT ![t].pc = "reinit_notify", ![Listener].pc = "recv"]
        /\ mutex' = TRUE
        /\ UNCHANGED <<sigCh, watched, once>>
     \/ /\ ~StartsListener(sigChMade, th[t].force)
        /\ ~th[t].force
        /\ ReinitReturn(t)
        /\ UNCHANGED <<sigChMade, sigCh, watched, listeners>>
     \/ /\ ~StartsListener(sigChMade, th[t].force)
        /\ th[t].force
        /\ watched' = {}
        /\ Set(t, [th[t] EXCEPT !.pc = "reinit_notify", !.old = watched])
        /\ mutex' = TRUE
        /\ UNCHANGED <<sigChMade, sigCh, listeners, once>>
  /\ UNCHANGED <<execs, calls, ExitCodeErr>>
  /\ UNCHANGED_config /\ UNCHANGED_exit /\ UNCHANGED_stack /\ UNCHANGED_count

\* reinit, line 124: signal.Notify(c.sigCh, signals...), then the deferred Unlock
ReinitNotify(t) ==
  /\ Running
  /\ th[t].pc = "reinit_notify"
  /\ watched' = watched \cup th[t].sigs
  /\ ReinitReturn(t)
  /\ UNCHANGED <<sigChMade, sigCh, listeners, execs, calls, ExitCodeErr>>
  /\ UNCHANGED_config /\ UNCHANGED_exit /\ UNCHANGED_stack /\ UNCHANGED_count

\* SetSignals(signals...): gC.reinit(true, signals...)
SetSignals(t, signals) ==
  /\ CanCall(t)
  /\ nCalls' = nCalls + 1
  /\ Set(t, [th[t] EXCEPT !.pc = "reinit", !.op = "SetSignals", !.force = TRUE,
                          !.sigs = IF signals = {} THEN DefaultSignals ELSE signals])
  /\ UNCHANGED <<mutex, once, execs, calls, ExitCodeErr, nSignals>>
  /\ UNCHANGED_config /\ UNCHANGED_exit /\ UNCHANGED_signal /\ UNCHANGED_stack

\* ------------------------------------------------------------------ Defer
\* Defer(fns...): get().deferFuncs(fns...), up to the return of get()
Defer(t) ==
  /\ CanCall(t)
  /\ nCalls' = nCalls + 1
  /\ Get(t, [th[t] EXCEPT !.op = "Defer"])
  /\ UNCHANGED <<mutex, execs, calls, ExitCodeErr, nSignals>>
  /\ UNCHANGED_config /\ UNCHANGED_exit /\ UNCHANGED_signal /\ UNCHANGED_stack

\* The mutant of the append that puts the new batch under the stack.
AppendedBelow(stack, b, slice) ==
  [k \in 1..Len(slice) |-> [b |-> b, k |-> k, fn |-> slice[k]]] \o stack

\* The mutant of the append that loses the first function of the batch.
AppendedWithoutFirst(stack, b, slice) ==
  stack \o [k \in 1..(Len(slice) - 1) |-> [b |-> b, k |-> k + 1, fn |-> slice[k + 1]]]

\* append(c.closers, cfs...): the stack with a copy of each closerFunc of the
\* slice on top; the copies are values of their own, not the slice's entries.
Appended(stack, b, slice) ==
  stack \o [k \in 1..Len(slice) |-> [b |-> b, k |-> k, fn |-> slice[k]]]

\* deferFuncs, lines 86-103: cfs := make(closerFuncs, len(fns)) with each
\* cfs[i].fn set from fns[i]; then under the lock the append; then the return
\* of the trigger, which closes over cfs
DeferFuncs(t, n) ==
  /\ Running
  /\ th[t].pc = "deferFuncs"
  /\ CanLock(mutex)
  /\ LET b == Len(cfs) + 1
         slice == [k \in 1..n |-> TRUE]
     IN  /\ cfs' = Append(cfs, slice)
         /\ closers' = Appended(closers, b, slice)
         /\ trig' = trig \cup {b}
  /\ execs' = Append(execs, [k \in 1..n |-> 0])
  /\ calls' = Append(calls, 0)
  /\ Set(t, Idle)
  /\ UNCHANGED <<mutex, once, ExitCodeErr>>
  /\ UNCHANGED_config /\ UNCHANGED_exit /\ UNCHANGED_signal /\ UNCHANGED_count

\* The mutant of the panic that first appends what the loop has converted.
StackAtPanicKeepsConverted(stack, b, bad) ==
  Appended(stack, b, [k \in 1..(bad - 1) |-> TRUE])

\* deferFuncs, line 97: the panic leaves deferFuncs before c.Lock() and the
\* append, so the stack is what it was.
StackAtPanic(stack, b, bad) == stack

\* deferFuncs, lines 86-99, given n arguments of which the bad-th is the first
\* that is no func(), func() error or io.Closer: the loop panics there.  The
\* panic unwinds the calling goroutine, which makes no further call; unless
\* the caller recovers it, it ends the process.
DeferPanics(t, n, bad, recovered) ==
  /\ Running
  /\ th[t].pc = "deferFuncs"
  /\ bad <= n
  /\ closers' = StackAtPanic(closers, Len(cfs) + 1, bad)
  /\ Set(t, [th[t] EXCEPT !.pc = "panicked", !.n = n, !.i = bad])
  /\ IF recovered THEN UNCHANGED_exit ELSE OsExit(t, "panic", PanicStatus)
  /\ UNCHANGED <<cfs, trig, mutex, once, execs, calls, ExitCodeErr>>
  /\ UNCHANGED_config /\ UNCHANGED_signal /\ UNCHANGED_count

\* ---------------------------------------------------------------- cleanup
\* The lock is taken and cfs.cleanup() or c.closers.cleanup() starts at the
\* last of its n entries: i := len(cfs) - 1 (here entries are counted from 1).
StartCleanup(t, op, b, n) ==
  /\ Running
  /\ CanLock(mutex)
  /\ mutex' = TRUE
  /\ Set(t, [th[t] EXCEPT
               !.pc = "cleanup", !.op = op, !.b = b, !.n = n, !.i = n,
               !.erred = FALSE, !.ran = <<>>, !.sets = FALSE,
               !.todo = {j \in 1..n : IF op = "trigger" THEN cfs[b][j]
                                      ELSE closers[j].fn}])

\* The trigger returned by Defer is called: c.Lock(), then cfs.cleanup() begins
Trigger(t, b) ==
  /\ CanCall(t)
  /\ b \in trig
  /\ nCalls' = nCalls + 1
  /\ StartCleanup(t, "trigger", b, Len(cfs[b]))
  /\ calls' = [calls EXCEPT ![b] = @ + 1]
  /\ UNCHANGED <<once, execs, ExitCodeErr, nSignals>>
  /\ UNCHANGED_config /\ UNCHANGED_exit /\ UNCHANGED_signal /\ UNCHANGED_stack

\* The entry a pass is at: of the trigger's slice, or of the stack.
Entry(t) ==
  IF th[t].op = "trigger"
    THEN [b |-> th[t].b, k |-> th[t].i, fn |-> cfs[th[t].b][th[t].i]]
    ELSE closers[th[t].i]

\* The mutant of the loop that ends at i > 0: the first entry is left out.
NextIndexLeavesFirst(i, n) == IF i = 2 THEN 0 ELSE i - 1

\* cleanup's loop: for i := len(cfs) - 1; i > -1; i--
NextIndex(i, n) == i - 1

\* The mutant of cleanup that stops at the first error.
ContinueUntilError(err) == ~err

\* cleanup goes on to the next entry whatever exec returned.
Continue(err) == TRUE

\* The mutant of cleanup that calls OnError after every function.
ReportedAlways(err, set) == set

\* cleanup, lines 55-59: OnError(err) is called when err # nil and OnError # nil
Reported(err, set) == err /\ set

\* cleanup, lines 54-61: one turn of the loop, cfs[i].exec() and what follows;
\* a function that goes back into the closer waits for the mutex its own
\* goroutine holds, and the turn does not end
CleanupStep(t, out) ==
  /\ Running
  /\ th[t].pc = "cleanup"
  /\ th[t].i > 0
  /\ LET e == Entry(t)
         r == exec(out, e.fn)
     IN  /\ IF th[t].op = "trigger"
              THEN /\ cfs' = [cfs EXCEPT ![e.b][e.k] = r.fn]
                   /\ closers' = closers
              ELSE /\ closers' = [closers EXCEPT ![th[t].i].fn = r.fn]
                   /\ cfs' = cfs
         /\ execs' = IF r.ran THEN [execs EXCEPT ![e.b][e.k] = @ + 1] ELSE execs
         /\ ExitCodeErr' = IF r.ran /\ out = "seterr" THEN TestExitCodeErr
                           ELSE ExitCodeErr
         /\ Set(t, [th[t] EXCEPT
                      !.pc = IF r.res = "reentered" /\ ~Relocks(mutex)
                               THEN "blocked" ELSE @,
                      !.erred = th[t].erred \/ r.err,
                      !.ran = IF r.ran
                                THEN Append(@, [j |-> th[t].i, b |-> e.b, k |-> e.k,
                                                res |-> r.res,
                                                rep |-> Reported(r.err, OnErrorSet)])
                                ELSE @,
                      !.sets = @ \/ (r.ran /\ out = "seterr"),
                      !.i = IF r.res = "reentered" /\ ~Relocks(mutex) THEN @
                            ELSE IF Continue(r.err) THEN NextIndex(th[t].i, th[t].n)
                            ELSE 0])
  /\ UNCHANGED <<trig, mutex, once, calls>>
  /\ UNCHANGED_config /\ UNCHANGED_exit /\ UNCHANGED_signal /\ UNCHANGED_count

\* Where a goroutine continues after its pass.
AfterCleanup(t) ==
  CASE th[t].op = "trigger"       -> Idle
    [] th[t].op = "Exit"          -> [th[t] EXCEPT !.pc = "exit"]
    [] th[t].op = "waitForSignal" -> [th[t] EXCEPT !.pc = "signal_exit"]

\* cleanup returns errored, and the caller unlocks: c.Unlock()
CleanupReturn(t) ==
  /\ Running
  /\ th[t].pc = "cleanup"
  /\ th[t].i = 0
  /\ mutex' = Unlock(mutex)
  /\ Set(t, AfterCleanup(t))
  /\ UNCHANGED <<once, execs, calls, ExitCodeErr>>
  /\ UNCHANGED_config /\ UNCHANGED_exit /\ UNCHANGED_signal
  /\ UNCHANGED_stack /\ UNCHANGED_count

\* ------------------------------------------------------------------- Exit
\* Exit(code): c := get()
Exit(t, code) ==
  /\ CanCall(t)
  /\ nCalls' = nCalls + 1
  /\ Get(t, [th[t] EXCEPT !.op = "Exit", !.code = code])
  /\ UNCHANGED <<mutex, execs, calls, ExitCodeErr, nSignals>>
  /\ UNCHANGED_config /\ UNCHANGED_exit /\ UNCHANGED_signal /\ UNCHANGED_stack

\* Exit, lines 156-157: c.Lock(), then c.closers.cleanup() begins
ExitLock(t) ==
  /\ th[t].pc = "exit_lock"
  /\ StartCleanup(t, "Exit", 0, Len(closers))
  /\ UNCHANGED <<once, execs, calls, ExitCodeErr>>
  /\ UNCHANGED_config /\ UNCHANGED_exit /\ UNCHANGED_signal
  /\ UNCHANGED_stack /\ UNCHANGED_count

\* Exit, lines 159-166: the status is chosen and os.Exit is called
ExitExit(t) ==
  /\ Running
  /\ th[t].pc = "exit"
  /\ OsExit(t, "Exit", ExitStatus(th[t].code, th[t].erred, ExitCodeOk, ExitCodeErr))
  /\ UNCHANGED <<th, mutex, once, execs, calls, ExitCodeErr>>
  /\ UNCHANGED_config /\ UNCHANGED_signal /\ UNCHANGED_stack /\ UNCHANGED_count

\* ---------------------------------------------------------- waitForSignal
\* the operating system sends the process a signal: signal.Notify's relay
\* puts a watched one into the channel unless the channel is full, and one
\* nobody watches ends the process as the runtime's default does
Signal(s) ==
  /\ Running
  /\ nSignals < MaxSignals
  /\ nSignals' = nSignals + 1
  /\ IF s \in watched
       THEN /\ sigCh' = IF Len(sigCh) < SigChCap THEN Append(sigCh, s) ELSE sigCh
            /\ UNCHANGED_exit
       ELSE /\ OsExit(Listener, "os", s)
            /\ sigCh' = sigCh
  /\ UNCHANGED <<sigChMade, watched, listeners, th, mutex, once, execs, calls,
                 ExitCodeErr, nCalls>>
  /\ UNCHANGED_config /\ UNCHANGED_stack

\* waitForSignal, line 73: for sig := range c.sigCh
Receive ==
  /\ Running
  /\ th[Listener].pc = "recv"
  /\ sigCh # <<>>
  /\ sigCh' = Tail(sigCh)
  /\ Set(Listener, [th[Listener] EXCEPT !.pc = "signal_lock", !.sig = Head(sigCh)])
  /\ UNCHANGED <<sigChMade, watched, listeners, mutex, once, execs, calls, ExitCodeErr>>
  /\ UNCHANGED_config /\ UNCHANGED_exit /\ UNCHANGED_stack /\ UNCHANGED_count

\* waitForSignal, lines 74-75: c.Lock(), then c.closers.cleanup() begins
SignalLock ==
  /\ th[Listener].pc = "signal_lock"
  /\ StartCleanup(Listener, "waitForSignal", 0, Len(closers))
  /\ UNCHANGED <<once, execs, calls, ExitCodeErr>>
  /\ UNCHANGED_config /\ UNCHANGED_exit /\ UNCHANGED_signal
  /\ UNCHANGED_stack /\ UNCHANGED_count

\* waitForSignal, lines 77-81: the status is chosen and os.Exit is called
SignalExit ==
  /\ Running
  /\ th[Listener].pc = "signal_exit"
  /\ OsExit(Listener, "waitForSignal",
            SignalStatus(th[Listener].sig, ExitWithSignalCode, ExitCodeErr))
  /\ UNCHANGED <<th, mutex, once, execs, calls, ExitCodeErr>>
  /\ UNCHANGED_config /\ UNCHANGED_signal /\ UNCHANGED_stack /\ UNCHANGED_count

\* ------------------------------------------------------------------- Next
Next ==
  \/ \E t \in Threads : Defer(t)
  \/ \E t \in Threads : ReinitBody(t)
  \/ \E t \in Threads : ReinitNotify(t)
  \/ \E t \in Threads, n \in FnCounts : DeferFuncs(t, n)
  \/ \E t \in Threads, n \in FnCounts, bad \in FnCounts, recovered \in BOOLEAN :
       DeferPanics(t, n, bad, recovered)
  \/ \E t \in Threads, b \in 1..MaxCalls : Trigger(t, b)
  \/ \E t \in Procs, out \in Outcomes : CleanupStep(t, out)
  \/ \E t \in Procs : CleanupReturn(t)
  \/ \E t \in Threads, signals \in SignalArgs : SetSignals(t, signals)
  \/ \E t \in Threads, code \in ExitArgs : Exit(t, code)
  \/ \E t \in Threads : ExitLock(t)
  \/ \E t \in Threads : ExitExit(t)
  \/ \E s \in OsSignals : Signal(s)
  \/ Receive
  \/ SignalLock
  \/ SignalExit

Spec == Init /\ [][Next]_vars

\* ------------------------------------------------- scheduling and progress
\* The ways a deferred function ends when it returns or panics and does not
\* go back into the closer.
LiveOutcomes == {"ok", "err", "panic"}

\* The process with both settings that only choose the exit status left as
\* the package declares them.
LiveInit == Init /\ ~ExitWithSignalCode /\ ~OnErrorSet

\* The next step of a call the goroutine t is in.
Proceed(t) ==
  \/ ReinitBody(t)
  \/ ReinitNotify(t)
  \/ \E n \in FnCounts : DeferFuncs(t, n)
  \/ \E n \in FnCounts, bad \in FnCounts, recovered \in BOOLEAN :
       DeferPanics(t, n, bad, recovered)
  \/ \E out \in LiveOutcomes : CleanupStep(t, out)
  \/ CleanupReturn(t)
  \/ ExitLock(t)
  \/ ExitExit(t)

\* The next step of waitForSignal.
Listen ==
  \/ Receive
  \/ SignalLock
  \/ \E out \in LiveOutcomes : CleanupStep(Listener, out)
  \/ CleanupReturn(Listener)
  \/ SignalExit

\* The steps of a process none of whose deferred functions goes back into the
\* closer or fails to end.
LiveNext ==
  \/ \E t \in Threads : Defer(t)
  \/ \E t \in Threads, b \in 1..MaxCalls : Trigger(t, b)
  \/ \E t \in Threads, signals \in SignalArgs : SetSignals(t, signals)
  \/ \E t \in Threads, code \in ExitArgs : Exit(t, code)
  \/ \E s \in OsSignals : Signal(s)
  \/ \E t \in Threads : Proceed(t)
  \/ Listen

\* The scheduler runs every goroutine that can take a step, and a goroutine
\* waiting in Lock gets the mutex once it is left free.
LiveSpec ==
  /\ LiveInit
  /\ [][LiveNext]_vars
  /\ \A t \in Threads : WF_vars(Proceed(t))
  /\ WF_vars(Listen)

\* ============================================================== properties
\* The goroutine t runs a cleanup pass, or has run the one its call ends with.
HoldsPass(t) == th[t].pc \in {"cleanup", "exit", "signal_exit"}
FullPass(t) == HoldsPass(t) /\ th[t].op \in {"Exit", "waitForSignal"}
TriggerPass(t) == HoldsPass(t) /\ th[t].op = "trigger"
\* cleanup's loop has ended
PassOver(t) == HoldsPass(t) /\ th[t].i = 0

\* The members of a set of numbers, from the greatest down.
RECURSIVE Desc(_)
Desc(S) ==
  IF S = {} THEN <<>>
  ELSE LET m == CHOOSE x \in S : \A y \in S : y <= x
       IN  <<m>> \o Desc(S \ {m})

\* The entries whose functions t's pass has called, in the order of the calls.
RanEntries(t) == [p \in 1..Len(th[t].ran) |-> th[t].ran[p].j]
\* The functions t's pass has called, as <<batch, place in the batch>>.
RanFns(t) == [p \in 1..Len(th[t].ran) |-> <<th[t].ran[p].b, th[t].ran[p].k>>]
\* A function called in t's pass returned an error or panicked.
Failed(t) == \E p \in 1..Len(th[t].ran) : th[t].ran[p].res # "nil"
\* The pass has called, from the top down, every function that was pending
\* when it began and lies above the entry it is at.
RanPendingDownTo(t) == RanEntries(t) = Desc({j \in th[t].todo : j > th[t].i})

\* C1: the first call of the trigger of a batch of n functions calls them in
\* reverse registration order, the last registered first, each once: while it
\* runs it has called n, n-1, ..., i+1, and when it is over all n.
C1_FirstTriggerRunsBatchInReverse ==
  \A t \in Threads :
    (TriggerPass(t) /\ calls[th[t].b] = 1) =>
      LET b == th[t].b
          n == Len(cfs[b])
      IN  RanFns(t) = [p \in 1..(n - th[t].i) |-> <<b, n + 1 - p>>]

C1_Witness ==
  \E t \in Threads :
    /\ TriggerPass(t) /\ PassOver(t)
    /\ calls[th[t].b] = 1
    /\ Len(th[t].ran) = 2

\* C2: a second or later call of the same trigger calls none of the batch's
\* functions.
C2_LaterTriggerCallRunsNothing ==
  \A t \in Threads :
    (TriggerPass(t) /\ calls[th[t].b] >= 2) => th[t].ran = <<>>

\* C3: no registered function is called more than once, whatever the triggers,
\* Exit calls and signal-triggered passes that run.
C3_NoFunctionCalledTwice ==
  \A b \in 1..Len(execs) : \A k \in 1..Len(execs[b]) : execs[b][k] <= 1

\* The process was ended by os.Exit in Exit or in waitForSignal.
EndedByCloser == terminated /\ exitBy \in {"Exit", "waitForSignal"}

C5_FullPassRunsStackInReverse ==
  \A t \in Procs :
    FullPass(t) =>
      /\ RanPendingDownTo(t)
      /\ \A p, q \in 1..Len(th[t].ran) :
           p < q => \/ th[t].ran[p].b > th[t].ran[q].b
                    \/ /\ th[t].ran[p].b = th[t].ran[q].b
                       /\ th[t].ran[p].k > th[t].ran[q].k

C5_Witness ==
  \E t \in Procs :
    /\ FullPass(t) /\ PassOver(t)
    /\ Len(th[t].ran) >= 3
    /\ th[t].ran[1].b # th[t].ran[Len(th[t].ran)].b

\* The status Exit(-1) is to end with after a pass in which failed tells
\* whether a function failed.
ByOutcome(failed) == IF failed THEN ExitCodeErr ELSE ExitCodeOk

\* C6 as claimed: once Exit(-1) has run its cleanup, the process ends with
\* ExitCodeOk if no function failed in it and with ExitCodeErr if one did,
\* whatever other Exit calls and the signal goroutine do meanwhile.
C6_ExitUnspecifiedDecidesStatus ==
  EndedByCloser =>
    \A t \in Threads :
      (th[t].pc = "exit" /\ th[t].code = Unspecified) => exitCode = ByOutcome(Failed(t))

\* C6 as amended: when the os.Exit that ends the process is the one of an
\* Exit(-1) call, the status is ExitCodeOk if no function failed in that call's
\* cleanup pass (none at all with an empty stack) and ExitCodeErr if one did.
C6_ExitUnspecifiedStatusWhenItEnds ==
  (terminated /\ exitBy = "Exit" /\ th[exitProc].code = Unspecified) =>
    /\ exitCode = ByOutcome(Failed(exitProc))
    /\ th[exitProc].n = 0 => exitCode = ExitCodeOk

C6_Witness ==
  /\ terminated /\ exitBy = "Exit" /\ th[exitProc].code = Unspecified
  /\ Failed(exitProc)
  /\ exitCode = ExitCodeErr

\* C7 as claimed: once Exit(code) with code # -1 has run its cleanup, the
\* process ends with exactly code, whatever a signal or another Exit call does
\* meanwhile.
C7_ExitCodeDecidesStatus ==
  EndedByCloser =>
    \A t \in Threads :
      (th[t].pc = "exit" /\ th[t].code # Unspecified) => exitCode = th[t].code

\* C7 as amended: when the os.Exit that ends the process is the one of an
\* Exit(code) call with code # -1, the status is exactly code, whether or not
\* a function failed in the cleanup.
C7_ExitCodeStatusWhenItEnds ==
  (terminated /\ exitBy = "Exit" /\ th[exitProc].code # Unspecified) =>
    exitCode = th[exitProc].code

C7_Witness ==
  /\ terminated /\ exitBy = "Exit" /\ th[exitProc].code # Unspecified
  /\ Failed(exitProc)
  /\ exitCode = th[exitProc].code

\* C8: the signal goroutine, having received a watched signal, runs a pass over
\* the whole stack and then ends the process with the signal's number if
\* ExitWithSignalCode is set and the signal is a syscall.Signal, and with
\* ExitCodeErr otherwise, whether or not a function failed.
C8_SignalStatus ==
  (terminated /\ exitBy = "waitForSignal") =>
    /\ exitProc = Listener
    /\ FullPass(Listener) /\ PassOver(Listener) /\ RanPendingDownTo(Listener)
    /\ exitCode = IF ExitWithSignalCode /\ IsSyscallSignal(th[Listener].sig)
                    THEN th[Listener].sig
                    ELSE ExitCodeErr

C8_Witness ==
  /\ terminated /\ exitBy = "waitForSignal"
  /\ ExitWithSignalCode
  /\ Failed(Listener)
  /\ exitCode = SIGTERM

\* C9: the status of a shutdown by signal is computed after the cleanup pass:
\* with ExitWithSignalCode unset, if a function called in the pass sets
\* ExitCodeErr to 55, the process ends with 55.
C9_SignalStatusReadAfterCleanup ==
  (terminated /\ exitBy = "waitForSignal" /\ ~ExitWithSignalCode /\ th[Listener].sets) =>
    exitCode = TestExitCodeErr

C9_Witness ==
  /\ terminated /\ exitBy = "waitForSignal"
  /\ ~ExitWithSignalCode /\ th[Listener].sets
  /\ exitCode = TestExitCodeErr

\* C10: a function that panics in a cleanup pass is caught there: the pass
\* counts it as a failure (errored, and OnError is told when it is set) and
\* goes on to call every remaining function in order.
C10_PanicIsFailureAndPassGoesOn ==
  \A t \in Procs :
    HoldsPass(t) =>
      \A p \in 1..Len(th[t].ran) :
        th[t].ran[p].res = "panic" =>
          /\ th[t].erred
          /\ OnErrorSet => th[t].ran[p].rep
          /\ RanPendingDownTo(t)

C10_Witness ==
  \E t \in Procs :
    /\ PassOver(t)
    /\ Len(th[t].ran) >= 2
    /\ th[t].ran[1].res = "panic"
    /\ OnErrorSet /\ th[t].ran[1].rep

\* The functions of the first m batches as Defer was given them, batch after
\* batch in the order of the appends.
RECURSIVE Batches(_)
Batches(m) ==
  IF m = 0 THEN <<>>
  ELSE Batches(m - 1) \o [k \in 1..Len(cfs[m]) |-> <<m, k>>]

\* The functions of the stack's entries, from the bottom up.
StackFns == [j \in 1..Len(closers) |-> <<closers[j].b, closers[j].k>>]

\* C11: whatever Defer calls run concurrently, the stack holds exactly the
\* functions of the batches appended, none lost and none twice, each batch in
\* one piece and in the order its functions were given.
C11_ConcurrentDefersKeepStack == StackFns = Batches(Len(cfs))

\* Of two Defer calls that overlap, the first has appended and returned
\* while the second, begun meanwhile, is still in deferFuncs.
C11_Witness ==
  /\ nCalls = 2
  /\ th[1].pc = "idle"
  /\ th[2].pc = "deferFuncs" /\ th[2].op = "Defer"
  /\ Len(cfs) = 1 /\ Len(closers) = 2

\* C12: whatever Defer, Exit and SetSignals calls interleave, forced ones
\* repeated and ones made before or during the first get() included, the
\* goroutine running waitForSignal is started at most once.
C12_OneListener == listeners <= 1

\* SetSignals has made the channel and started the goroutine while the reinit
\* of the first get() waits for the lock.
C12_Witness ==
  /\ listeners = 1
  /\ once = "running"
  /\ \E t, u \in Threads :
       /\ th[t].op = "SetSignals" /\ th[t].pc = "reinit_notify"
       /\ th[u].op # "SetSignals" /\ th[u].pc = "reinit"

\* C13: the step in which a Defer call panics over an unsupported argument
\* leaves the stack, the triggers and the count of calls of every function as
\* they were: nothing passed to that call is appended or is ever called.
C13_PanickingDeferLeavesStack ==
  [][\A t \in Threads :
       (th[t].pc # "panicked" /\ th'[t].pc = "panicked") =>
         /\ closers' = closers
         /\ cfs' = cfs /\ trig' = trig
         /\ execs' = execs]_vars

\* A Defer call given a supported function and then an unsupported argument
\* has panicked, and a later pass over the whole stack has run what other
\* calls registered.
C13_Witness ==
  /\ \E t \in Threads : th[t].pc = "panicked" /\ th[t].i = 2
  /\ \E u \in Procs : FullPass(u) /\ PassOver(u) /\ Len(th[u].ran) >= 1
  /\ StackFns = Batches(Len(cfs))

\* The entry of t's pass at position j still has its fn.
StillSet(t, j) == IF th[t].op = "trigger" THEN cfs[th[t].b][j] ELSE closers[j].fn

\* C14: once exec has returned from calling an entry's function, the entry's fn
\* is nil, whether the function returned nil, returned an error or panicked.
C14_CalledFunctionIsCleared ==
  \A t \in Procs :
    HoldsPass(t) => \A p \in 1..Len(th[t].ran) : ~StillSet(t, th[t].ran[p].j)

\* C15: in every cleanup pass a function that returns an error does not end the
\* pass, the functions after it are called all the same; OnError, when set, is
\* called for each call that failed and for no call that did not; and errored,
\* which the pass returns, is true exactly when a call failed.
C15_ErrorsAreReportedAndPassGoesOn ==
  \A t \in Procs :
    HoldsPass(t) =>
      /\ RanPendingDownTo(t)
      /\ \A p \in 1..Len(th[t].ran) :
           th[t].ran[p].rep = (OnErrorSet /\ th[t].ran[p].res # "nil")
      /\ th[t].erred = Failed(t)

C15_Witness ==
  \E t \in Procs :
    /\ PassOver(t)
    /\ OnErrorSet
    /\ Len(th[t].ran) = 2
    /\ th[t].ran[1].res = "error" /\ th[t].ran[1].rep
    /\ th[t].ran[2].res = "nil" /\ ~th[t].ran[2].rep
    /\ th[t].erred

\* The goroutine t is inside a cleanup pass: between the Lock before it and the
\* Unlock after it.
InPass(t) == th[t].pc \in {"cleanup", "blocked"}

\* C16: at most one cleanup pass, of a trigger, of Exit or of waitForSignal, is
\* in progress at any time, the goroutine running it holds the lock, and no
\* step taken while a pass is in progress appends to the stack.
C16_PassesExcludeEachOtherAndDefer ==
  [][/\ Cardinality({t \in Procs : InPass(t)}) <= 1
     /\ Cardinality({t \in Procs : InPass(t)'}) <= 1
     /\ (\E t \in Procs : InPass(t)) =>
          /\ mutex
          /\ Len(closers') = Len(closers)
          /\ Len(cfs') = Len(cfs)]_vars

\* A Defer call waits in deferFuncs while a pass is between two functions.
C16_Witness ==
  \E t \in Procs, u \in Threads :
    /\ th[t].pc = "cleanup" /\ 0 < th[t].i /\ th[t].i < th[t].n
    /\ th[u].pc = "deferFuncs"
    /\ mutex

\* C17: the process is not ended by Exit or by waitForSignal while a cleanup
\* pass, of whatever goroutine, has functions left to call.
C17_NoExitDuringPass ==
  EndedByCloser =>
    \A t \in Procs : ~(th[t].pc = "cleanup" /\ th[t].i > 0)

\* The goroutine t waits for the mutex it holds itself.
Blocked(t) == th[t].pc = "blocked"
\* The last function t's pass called went back into the closer.
Reentered(t) ==
  /\ InPass(t)
  /\ th[t].ran # <<>>
  /\ th[t].ran[Len(th[t].ran)].res = "reentered"

C20_NoUnwatchedWindow ==
  \A t \in Threads :
    th[t].pc = "reinit_notify" => (th[t].old \cap th[t].sigs) \subseteq watched

\* The goroutine t is inside a Defer call or a call of a trigger.
InDeferOrTrigger(t) == th[t].pc # "idle" /\ th[t].op \in {"Defer", "trigger"}
\* The call t was in has ended: it returned, or Defer panicked.
CallEnded(t) == th[t].pc \in {"idle", "panicked"}

====
